---- MODULE Spec2Model ----
(***************************************************************************)
(* Model of the EZPostgres central catalog (schema meta), its PL/pgSQL     *)
(* functions (meta.is_admin, meta.get_user_teams, meta.deploy_table) and   *)
(* the administrative operations of manage-central.py (create_team,        *)
(* create_user, remove_user, add_user_to_team).                            *)
(*                                                                         *)
(* Strings are tuples of one-character strings so that the name            *)
(* derivations of the code (lower(), replace(' ', '_'), prefixes) are      *)
(* computed, not assumed.  NULL ids are written 0 (SERIAL ids start at 1). *)
(***************************************************************************)
EXTENDS Integers, Sequences, FiniteSets, TLC

\* ------------------------------------------------------------------ bounds

\* deploy_table is called while the catalog records fewer tables than this
MaxDeploys == 2

\* statements that fail for a reason outside the catalog in a run
MaxFailures == 1

\* ------------------------------------------------------------------ strings

\* str.lower() on one character (the letters the inputs below use).
LowerChar(c) ==
    CASE c = "A" -> "a"
      [] c = "B" -> "b"
      [] c = "C" -> "c"
      [] c = "T" -> "t"
      [] OTHER -> c

\* str.lower()
lower(s) == [i \in 1..Len(s) |-> LowerChar(s[i])]

\* str.replace(old, new) for one-character old and new
replace(s, old, new) == [i \in 1..Len(s) |-> IF s[i] = old THEN new ELSE s[i]]

\* name.lower().replace(' ', '_')
slug(name) == replace(lower(name), " ", "_")

\* f"team_{team_name.lower().replace(' ', '_')}"
schema_name_of(team_name) == <<"t", "e", "a", "m", "_">> \o slug(team_name)

\* f"user_{username.lower().replace(' ', '_')}"
pg_username_of(username) == <<"u", "s", "e", "r", "_">> \o slug(username)

\* the team's group role: team_{schema_name} (create_team), team_%s (deploy_table)
team_role_of(schema_name) == <<"t", "e", "a", "m", "_">> \o schema_name

\* PostgreSQL folds an identifier written without quotes to lower case.
fold(ident) == lower(ident)

\* the schema that holds the catalog and its functions
meta == <<"m", "e", "t", "a">>

\* ------------------------------------------------------------------ inputs

None == <<>>

\* usernames; bob and Bob derive the same database role
admin == <<"a", "d", "m", "i", "n">>
pg    == <<"p", "g">>
bob   == <<"b", "o", "b">>
Bob   == <<"B", "o", "b">>
eve   == <<"e", "v", "e">>

\* team names; A_b and a_b derive the same schema name
A_b == <<"A", " ", "b">>
a_b == <<"a", "_", "b">>
c   == <<"c">>

\* a command line of manage-central.py
Cmd(op, username, team, admin_flag) ==
    [op |-> op, username |-> username, team |-> team, is_admin |-> admin_flag, run |-> 1]

\* the same command line run a second time
Again(cmd) == [cmd EXCEPT !.run = 2]

\* The command lines an operator runs, in any order (a second run of a command
\* line after its first): one set per run.
Workloads == {
    {Cmd("create_team", None, A_b, FALSE), Cmd("create_team", None, c, FALSE),
     Cmd("create_user", pg, A_b, FALSE), Cmd("create_user", bob, A_b, TRUE)},
    {Cmd("create_team", None, A_b, FALSE), Cmd("create_user", bob, A_b, FALSE),
     Cmd("remove_user", bob, None, FALSE), Cmd("create_user", bob, None, FALSE)},
    {Cmd("create_team", None, A_b, FALSE), Cmd("create_user", bob, A_b, FALSE),
     Cmd("create_user", eve, None, FALSE), Cmd("add_user_to_team", eve, A_b, FALSE)},
    {Cmd("create_team", None, A_b, FALSE), Cmd("create_team", None, a_b, FALSE),
     Cmd("remove_user", admin, None, FALSE)},
    {Cmd("create_team", None, A_b, FALSE), Again(Cmd("create_team", None, A_b, FALSE)),
     Cmd("create_user", bob, A_b, FALSE), Again(Cmd("create_user", bob, A_b, FALSE))},
    {Cmd("create_team", None, A_b, FALSE), Cmd("create_user", eve, None, FALSE),
     Cmd("add_user_to_team", eve, A_b, FALSE),
     Again(Cmd("add_user_to_team", eve, A_b, FALSE))},
    {Cmd("create_user", bob, None, FALSE), Cmd("create_user", Bob, None, FALSE),
     Cmd("remove_user", bob, None, FALSE)} }

\* table names given to deploy_table
TableNames == {<<"t">>, <<"T">>}

\* table definitions given to deploy_table (DDL the function pastes into CREATE TABLE)
TableDefinitions == {"(id int)"}

\* DB_USERNAME of admin.env: the role that runs the scripts and owns the functions
OwnerNames == {admin, pg}

\* plpgsql.variable_conflict of the server (PostgreSQL's default is error)
VariableConflicts == {"error", "use_variable", "use_column"}

\* ------------------------------------------------------------------ state

VARIABLES
    teams,             \* meta.teams: [id, name, schema_name]
    users,             \* meta.users: [id, username, is_admin]
    team_members,      \* meta.team_members: [user_id, team_id]
    meta_tables,       \* meta.tables: [team_id, table_name, schema_name, created_by, updated_at]
    teams_id_seq,      \* last value of meta.teams_id_seq
    users_id_seq,      \* last value of meta.users_id_seq
    roles,             \* pg_roles made by the scripts (user roles and team roles)
    schemas,           \* physical schemas other than meta
    tables,            \* physical tables <<schema, table>>
    grants,            \* privileges: <<"member", role, group>>, <<"usage", role, schema>>,
                       \*   <<"table", role, schema, table>>, <<"dbadmin", role>>
    db_owner,          \* DB_USERNAME: owner of the meta functions, the scripts' login
    variable_conflict, \* plpgsql.variable_conflict
    adm,               \* the admin operation in progress and its local variables
    last,              \* the last operation that ended, and its outcome
    todo,              \* the command lines not run yet
    nfails,            \* statements that failed for an outside reason
    parked,            \* the admin operation of a second client, between two statements
    txs                \* the deploy_table calls of concurrent sessions, by caller

catalogVars == <<teams, users, team_members, meta_tables, teams_id_seq, users_id_seq>>
dbVars      == <<roles, schemas, tables, grants>>
envVars     == <<db_owner, variable_conflict>>
concVars    == <<parked, txs>>
vars == <<teams, users, team_members, meta_tables, teams_id_seq, users_id_seq,
          roles, schemas, tables, grants, db_owner, variable_conflict, adm, last,
          todo, nfails, parked, txs>>

Idle == [op |-> "idle", pc |-> "idle", username |-> None, team |-> None,
         is_admin |-> FALSE, user_id |-> 0, team_id |-> 0, schema_name |-> None]

NoOp == [op |-> "none", username |-> None, team |-> None, outcome |-> "none"]

\* the sessions that call meta.deploy_table at the same time
Callers == {1, 2}

\* a session that has not called meta.deploy_table
NoTx == [pc |-> "idle", session_user |-> None, p_team_id |-> 0, p_table_name |-> None,
         team_schema |-> None, user_id |-> 0, saw_schema |-> FALSE, saw_table |-> FALSE,
         new_schema |-> FALSE, outcome |-> "none"]

\* The catalog after initialize_central_database(): the seeded administrator row.
Init ==
    /\ teams = {}
    /\ users = {[id |-> 1, username |-> admin, is_admin |-> TRUE]}
    /\ team_members = {}
    /\ meta_tables = {}
    /\ teams_id_seq = 0
    /\ users_id_seq = 1
    /\ roles = {}
    /\ schemas = {}
    /\ tables = {}
    /\ grants = {}
    /\ db_owner \in OwnerNames
    /\ variable_conflict \in VariableConflicts
    /\ adm = Idle
    /\ last = NoOp
    /\ todo \in Workloads
    /\ nfails = 0
    /\ parked = Idle
    /\ txs = [p \in Callers |-> NoTx]

\* ------------------------------------------------------------------ PL/pgSQL functions

\* current_user inside a SECURITY DEFINER function: the owner of the function,
\* whatever role the session was opened under.
current_user(session_user) == db_owner

\* SELECT ... FROM meta.users u WHERE u.username = current_user
current_user_rows(session_user) == {u \in users : u.username = current_user(session_user)}

\* SELECT u.id INTO user_id ...: the id of the matching row, NULL (0) when there is none
current_user_id(session_user) ==
    IF current_user_rows(session_user) = {} THEN 0
    ELSE (CHOOSE u \in current_user_rows(session_user) : TRUE).id

\* meta.is_admin(): COALESCE(is_admin_user, false)
is_admin(session_user) ==
    IF current_user_rows(session_user) = {} THEN FALSE
    ELSE (CHOOSE u \in current_user_rows(session_user) : TRUE).is_admin

\* The query of the ELSE branch of meta.get_user_teams():
\*   ... INNER JOIN meta.team_members tm ON t.id = tm.team_id WHERE tm.user_id = user_id
\* user_id names both the column tm.user_id and the PL/pgSQL variable; what the
\* statement does is decided by plpgsql.variable_conflict.
member_teams_query(user_id) ==
    CASE variable_conflict = "error" ->
            [raised |-> TRUE, rows |-> {}]
      [] variable_conflict = "use_variable" ->
            [raised |-> FALSE,
             rows |-> {<<t.id, t.schema_name>> : t \in
                        {t \in teams : \E tm \in team_members :
                            tm.team_id = t.id /\ user_id # 0 /\ tm.user_id = user_id}}]
      [] OTHER ->
            [raised |-> FALSE,
             rows |-> {<<t.id, t.schema_name>> : t \in
                        {t \in teams : \E tm \in team_members :
                            tm.team_id = t.id /\ tm.user_id = tm.user_id}}]

\* meta.get_user_teams(): the rows (team_id, schema_name) it returns, or raised = TRUE
get_user_teams(session_user) ==
    IF is_admin(session_user)
    THEN [raised |-> FALSE, rows |-> {<<t.id, t.schema_name>> : t \in teams}]
    ELSE member_teams_query(current_user_id(session_user))

\* the authorization check left out: every caller passes
is_authorized_unchecked(session_user, p_team_id) == TRUE

\* SELECT COUNT(*) > 0 INTO is_authorized FROM meta.get_user_teams() WHERE team_id = p_team_id
is_authorized(session_user, p_team_id) ==
    \E r \in get_user_teams(session_user).rows : r[1] = p_team_id

\* roles a session can be opened under: the users made by CREATE USER, and the owner
IsUserRole(r) == Len(r) >= 5 /\ SubSeq(r, 1, 5) = <<"u", "s", "e", "r", "_">>
Sessions == {r \in roles : IsUserRole(r)} \cup {db_owner}

\* a role can call meta.deploy_table only with USAGE on schema meta
CanUseMeta(session_user) ==
    \/ session_user = db_owner
    \/ <<"usage", session_user, meta>> \in grants
    \/ <<"dbadmin", session_user>> \in grants

\* the upsert without its INSERT: only an existing row is refreshed
upsert_table_update_only(recs, p_team_id, p_table_name, team_schema, user_id) ==
    {IF r.schema_name = team_schema /\ r.table_name = p_table_name
     THEN [r EXCEPT !.updated_at = @ + 1] ELSE r : r \in recs}

\* INSERT INTO meta.tables ... ON CONFLICT (schema_name, table_name) DO UPDATE SET updated_at
upsert_table(recs, p_team_id, p_table_name, team_schema, user_id) ==
    IF \E r \in recs : r.schema_name = team_schema /\ r.table_name = p_table_name
    THEN {IF r.schema_name = team_schema /\ r.table_name = p_table_name
          THEN [r EXCEPT !.updated_at = @ + 1] ELSE r : r \in recs}
    ELSE recs \cup {[team_id |-> p_team_id, table_name |-> p_table_name,
                     schema_name |-> team_schema, created_by |-> user_id,
                     updated_at |-> 0]}

\* SELECT t.schema_name INTO team_schema FROM meta.teams t WHERE t.id = p_team_id:
\* NULL (None) when no row has that id
team_schema_of(p_team_id) ==
    IF \E t \in teams : t.id = p_team_id
    THEN (CHOOSE t \in teams : t.id = p_team_id).schema_name
    ELSE None

\* the grant to the team role left out
deploy_grants_none(team_schema, p_table_name) == {}

\* the grant made to a role named as the schema is
deploy_grants_to_schema_name(team_schema, p_table_name) ==
    {<<"table", fold(team_schema), team_schema, p_table_name>>}

\* GRANT ALL PRIVILEGES ON %I.%I TO GROUP team_%s
deploy_grants(team_schema, p_table_name) ==
    {<<"table", fold(team_role_of(team_schema)), team_schema, p_table_name>>}

\* a missing team role taken for granted: the GRANT never raises
deploy_outcome_ignoring_grant(session_user, p_team_id, p_table_name, p_table_definition) ==
    LET team_schema == team_schema_of(p_team_id)
    IN  IF ~CanUseMeta(session_user) THEN "PermissionDenied"
        ELSE IF get_user_teams(session_user).raised THEN "AmbiguousColumn"
        ELSE IF ~is_authorized(session_user, p_team_id) THEN "Unauthorized"
        ELSE IF team_schema = None THEN "NullIdentifier"
        ELSE IF <<team_schema, p_table_name>> \in tables THEN "DuplicateTable"
        ELSE "Success"

\* The outcome of meta.deploy_table for a caller and its arguments: the first
\* statement that raises decides it (the function body is one transaction).
deploy_outcome(session_user, p_team_id, p_table_name, p_table_definition) ==
    LET team_schema == team_schema_of(p_team_id)
    IN  IF ~CanUseMeta(session_user) THEN "PermissionDenied"
        ELSE IF get_user_teams(session_user).raised THEN "AmbiguousColumn"
        ELSE IF ~is_authorized(session_user, p_team_id) THEN "Unauthorized"
        ELSE IF team_schema = None THEN "NullIdentifier"
        ELSE IF <<team_schema, p_table_name>> \in tables THEN "DuplicateTable"
        ELSE IF \E g \in deploy_grants(team_schema, p_table_name) : g[2] \notin roles
             THEN "UndefinedObject"
        ELSE "Success"

\* meta.deploy_table(p_team_id, p_table_name, p_table_definition) called in a
\* session of session_user.  Every effect is kept only when no statement raised.
\* The calls are made between the commands of the operator, not during one.
deploy_table(session_user, p_team_id, p_table_name, p_table_definition) ==
    LET outcome == deploy_outcome(session_user, p_team_id, p_table_name, p_table_definition)
        team_schema == team_schema_of(p_team_id)
        user_id == current_user_id(session_user)
    IN  /\ adm.op = "idle"
        /\ Cardinality(meta_tables) < MaxDeploys
        /\ p_table_definition \in TableDefinitions
        /\ last' = [NoOp EXCEPT !.op = "deploy_table", !.outcome = outcome]
        /\ IF outcome = "Success"
           THEN /\ schemas' = schemas \cup {team_schema}
                /\ tables' = tables \cup {<<team_schema, p_table_name>>}
                /\ meta_tables' = upsert_table(meta_tables, p_team_id, p_table_name,
                                               team_schema, user_id)
                /\ grants' = grants \cup deploy_grants(team_schema, p_table_name)
           ELSE UNCHANGED <<schemas, tables, meta_tables, grants>>
        /\ UNCHANGED <<teams, users, team_members, teams_id_seq, users_id_seq, roles,
                       db_owner, variable_conflict, adm, todo, nfails, concVars>>

DeployTable ==
    \E session_user \in Sessions,
       p_team_id \in {t.id : t \in teams} \cup {teams_id_seq + 1},
       p_table_name \in TableNames,
       p_table_definition \in TableDefinitions :
        deploy_table(session_user, p_team_id, p_table_name, p_table_definition)

\* ------------------------------------------------------------------ admin operations
\* manage-central.py runs every statement in autocommit mode: each statement is a
\* step, and an exception ends the operation at the statement that raised it.

\* the operation ends: the message it prints is its outcome
Ends(outcome) ==
    /\ last' = [NoOp EXCEPT !.op = adm.op, !.username = adm.username, !.team = adm.team,
                            !.outcome = outcome]
    /\ adm' = Idle

\* main(): the command line is parsed and its function called; conn = connect_to_db()
Begin(op, pc) ==
    \E cmd \in todo :
        /\ cmd.op = op
        /\ adm.op = "idle"
        /\ cmd.run = 1 \/ Cmd(cmd.op, cmd.username, cmd.team, cmd.is_admin) \notin todo
        /\ todo' = todo \ {cmd}
        /\ adm' = [Idle EXCEPT !.op = op, !.pc = pc, !.username = cmd.username,
                               !.team = cmd.team, !.is_admin = cmd.is_admin]
        /\ UNCHANGED <<catalogVars, dbVars, envVars, concVars, last, nfails>>

\* ---- create_team(team_name)

CreateTeamBegin == Begin("create_team", "ct_insert")

\* meta.teams without UNIQUE on schema_name
insert_team_conflicts_name_only(rows, team_name, schema_name) ==
    \E t \in rows : t.name = team_name

\* INSERT INTO meta.teams (name, schema_name) ... RETURNING id: both columns are UNIQUE
insert_team_conflicts(rows, team_name, schema_name) ==
    \E t \in rows : t.name = team_name \/ t.schema_name = schema_name

CreateTeamInsert ==
    LET schema_name == schema_name_of(adm.team)
        team_id == teams_id_seq + 1
    IN  /\ adm.pc = "ct_insert"
        /\ teams_id_seq' = team_id
        /\ IF insert_team_conflicts(teams, adm.team, schema_name)
           THEN /\ Ends("UniqueViolation")
                /\ UNCHANGED teams
           ELSE /\ teams' = teams \cup {[id |-> team_id, name |-> adm.team,
                                         schema_name |-> schema_name]}
                /\ adm' = [adm EXCEPT !.pc = "ct_schema", !.team_id = team_id,
                                      !.schema_name = schema_name]
                /\ UNCHANGED last
        /\ UNCHANGED <<users, team_members, meta_tables, users_id_seq, dbVars, envVars, concVars, todo, nfails>>

\* CREATE SCHEMA IF NOT EXISTS {schema_name}
CreateTeamSchema ==
    /\ adm.pc = "ct_schema"
    /\ schemas' = schemas \cup {fold(adm.schema_name)}
    /\ adm' = [adm EXCEPT !.pc = "ct_role"]
    /\ UNCHANGED <<catalogVars, roles, tables, grants, envVars, concVars, last, todo, nfails>>

\* IF NOT EXISTS (... rolname = 'team_{schema_name}') THEN CREATE ROLE team_{schema_name}
CreateTeamRole ==
    /\ adm.pc = "ct_role"
    /\ roles' = roles \cup {fold(team_role_of(adm.schema_name))}
    /\ Ends("Success")
    /\ UNCHANGED <<catalogVars, schemas, tables, grants, envVars, concVars, todo, nfails>>

\* ---- create_user(username, password, is_admin, team)

CreateUserBegin == Begin("create_user", "cu_role")

\* if password != confirm_password: print("Error: Passwords do not match"); return
\* (the two prompts differ: the operation ends before it connects)
CreateUserPasswordMismatch ==
    \E cmd \in todo :
        /\ cmd.op = "create_user"
        /\ adm.op = "idle"
        /\ cmd.run = 1 \/ Cmd(cmd.op, cmd.username, cmd.team, cmd.is_admin) \notin todo
        /\ todo' = todo \ {cmd}
        /\ last' = [NoOp EXCEPT !.op = cmd.op, !.username = cmd.username,
                                !.team = cmd.team, !.outcome = "PasswordMismatch"]
        /\ UNCHANGED <<catalogVars, dbVars, envVars, concVars, adm, nfails>>

\* IF NOT EXISTS (... rolname = pg_username) THEN CREATE USER {pg_username}
CreateUserRole ==
    /\ adm.pc = "cu_role"
    /\ roles' = roles \cup {fold(pg_username_of(adm.username))}
    /\ adm' = [adm EXCEPT !.pc = "cu_insert"]
    /\ UNCHANGED <<catalogVars, schemas, tables, grants, envVars, concVars, last, todo, nfails>>

\* where create_user goes on after the statement at pc
after_insert(a) == IF a.team # None THEN "cu_member"
                   ELSE IF a.is_admin THEN "cu_admin" ELSE "done"
after_team(a) == IF a.is_admin THEN "cu_admin" ELSE "done"

\* go on to the next statement of create_user, or end with the success message
CreateUserGoes(next, a) ==
    IF next = "done"
    THEN Ends("Success")
    ELSE /\ adm' = [a EXCEPT !.pc = next]
         /\ UNCHANGED last

\* INSERT INTO meta.users (username, password_hash, is_admin) ... RETURNING id
CreateUserInsert ==
    LET user_id == users_id_seq + 1
    IN  /\ adm.pc = "cu_insert"
        /\ users_id_seq' = user_id
        /\ IF \E u \in users : u.username = adm.username
           THEN /\ Ends("UniqueViolation")
                /\ UNCHANGED users
           ELSE /\ users' = users \cup {[id |-> user_id, username |-> adm.username,
                                         is_admin |-> adm.is_admin]}
                /\ CreateUserGoes(after_insert(adm), [adm EXCEPT !.user_id = user_id])
        /\ UNCHANGED <<teams, team_members, meta_tables, teams_id_seq, dbVars, envVars, concVars, todo, nfails>>

\* SELECT id, schema_name FROM meta.teams WHERE name = team; when the team is found,
\* INSERT INTO meta.team_members ... ON CONFLICT DO NOTHING
CreateUserMember ==
    /\ adm.pc = "cu_member"
    /\ IF \E t \in teams : t.name = adm.team
       THEN LET team_result == CHOOSE t \in teams : t.name = adm.team
            IN  /\ team_members' = team_members \cup
                        {[user_id |-> adm.user_id, team_id |-> team_result.id]}
                /\ adm' = [adm EXCEPT !.pc = "cu_grant_role", !.team_id = team_result.id,
                                      !.schema_name = team_result.schema_name]
                /\ UNCHANGED last
       ELSE /\ CreateUserGoes(after_team(adm), adm)
            /\ UNCHANGED team_members
    /\ UNCHANGED <<teams, users, meta_tables, teams_id_seq, users_id_seq, dbVars, envVars, concVars, todo, nfails>>

\* GRANT a role, USAGE on a schema or table privileges: the statement raises when
\* an object it names does not exist
GrantStep(pc, exists, new_grants, next) ==
    /\ adm.pc = pc
    /\ IF exists
       THEN /\ grants' = grants \cup new_grants
            /\ CreateUserGoes(next, adm)
       ELSE /\ Ends("UndefinedObject")
            /\ UNCHANGED grants
    /\ UNCHANGED <<catalogVars, roles, schemas, tables, envVars, concVars, todo, nfails>>

\* GRANT team_{schema_name} TO {pg_username}
CreateUserGrantRole ==
    LET pg_username == fold(pg_username_of(adm.username))
        team_role == fold(team_role_of(adm.schema_name))
    IN  GrantStep("cu_grant_role", team_role \in roles /\ pg_username \in roles,
                  {<<"member", pg_username, team_role>>}, "cu_grant_usage")

\* GRANT USAGE ON SCHEMA {schema_name} TO {pg_username}
CreateUserGrantUsage ==
    LET pg_username == fold(pg_username_of(adm.username))
    IN  GrantStep("cu_grant_usage", fold(adm.schema_name) \in schemas /\ pg_username \in roles,
                  {<<"usage", pg_username, fold(adm.schema_name)>>}, "cu_grant_meta")

\* GRANT USAGE ON SCHEMA meta TO {pg_username}
CreateUserGrantMeta ==
    LET pg_username == fold(pg_username_of(adm.username))
    IN  GrantStep("cu_grant_meta", pg_username \in roles,
                  {<<"usage", pg_username, meta>>}, after_team(adm))

\* if is_admin: GRANT ALL PRIVILEGES ON DATABASE / SCHEMA meta / ALL TABLES / ALL SEQUENCES
CreateUserAdmin ==
    LET pg_username == fold(pg_username_of(adm.username))
    IN  GrantStep("cu_admin", pg_username \in roles, {<<"dbadmin", pg_username>>}, "done")

\* ---- lookups and reports shared by the operations

\* a lookup that ignores the case of the username
find_user_ignoring_case(rows, username) == {u \in rows : lower(u.username) = lower(username)}

\* SELECT id FROM meta.users WHERE username = %s
find_user(rows, username) == {u \in rows : u.username = username}

\* the statement of an operation that printed its report: the success message, the
\* "not found" and "already a member" messages, or the one handler
\* except Exception as e: print(f"Error ...: {e}") that every exception reaches
handler(outcome) ==
    CASE outcome = "Success" -> "print success"
      [] outcome = "NotFound" -> "print not found"
      [] outcome = "AlreadyMember" -> "print already a member"
      [] outcome = "PasswordMismatch" -> "print passwords do not match"
      [] OTHER -> "except Exception"

\* ---- remove_user(username)

RemoveUserBegin == Begin("remove_user", "ru_delete")

\* meta.tables.created_by REFERENCES meta.users(id) without ON DELETE: a row that
\* names the user blocks the DELETE
delete_user_blocked(recs, user_id) == \E r \in recs : r.created_by = user_id

\* meta.team_members.user_id without ON DELETE CASCADE taking the rows away
cascade_members_kept(ms, user_id) == ms

\* meta.team_members.user_id REFERENCES meta.users(id) ON DELETE CASCADE: the rows
\* of the deleted user go with it
cascade_members(ms, user_id) == {tm \in ms : tm.user_id # user_id}

\* SELECT id FROM meta.users WHERE username = ...; DELETE FROM meta.users WHERE id = ...
RemoveUserDelete ==
    /\ adm.pc = "ru_delete"
    /\ IF find_user(users, adm.username) = {}
       THEN /\ Ends("NotFound")
            /\ UNCHANGED <<users, team_members>>
       ELSE LET user_id == (CHOOSE u \in find_user(users, adm.username) : TRUE).id
            IN  IF delete_user_blocked(meta_tables, user_id)
                THEN /\ Ends("ForeignKeyViolation")
                     /\ UNCHANGED <<users, team_members>>
                ELSE /\ users' = {u \in users : u.id # user_id}
                     /\ team_members' = cascade_members(team_members, user_id)
                     /\ adm' = [adm EXCEPT !.pc = "ru_drop", !.user_id = user_id]
                     /\ UNCHANGED last
    /\ UNCHANGED <<teams, meta_tables, teams_id_seq, users_id_seq, dbVars, envVars, concVars, todo, nfails>>

\* IF EXISTS (... rolname = pg_username) THEN DROP OWNED BY {pg_username}; DROP USER {pg_username}
drop_user_grants(gs, pg_username) == {g \in gs : g[2] # pg_username}

RemoveUserDrop ==
    LET pg_username == fold(pg_username_of(adm.username))
    IN  /\ adm.pc = "ru_drop"
        /\ roles' = roles \ {pg_username}
        /\ grants' = IF pg_username \in roles THEN drop_user_grants(grants, pg_username)
                     ELSE grants
        /\ Ends("Success")
        /\ UNCHANGED <<catalogVars, schemas, tables, envVars, concVars, todo, nfails>>

\* ---- add_user_to_team(username, team_name)

AddUserBegin == Begin("add_user_to_team", "au_insert")

\* INSERT ... ON CONFLICT DO NOTHING RETURNING id yields a row for every call
insert_member_returns_always(rows, row) == TRUE

\* INSERT INTO meta.team_members ... ON CONFLICT DO NOTHING RETURNING id: a row is
\* returned only when one was inserted (UNIQUE(user_id, team_id))
insert_member_returns(rows, row) == row \notin rows

\* the two SELECTs, then the INSERT; if result: the grants, else "already a member"
AddUserInsert ==
    /\ adm.pc = "au_insert"
    /\ IF find_user(users, adm.username) = {} \/ ~(\E t \in teams : t.name = adm.team)
       THEN /\ Ends("NotFound")
            /\ UNCHANGED team_members
       ELSE LET user_id == (CHOOSE u \in find_user(users, adm.username) : TRUE).id
                team_result == CHOOSE t \in teams : t.name = adm.team
                row == [user_id |-> user_id, team_id |-> team_result.id]
            IN  IF ~insert_member_returns(team_members, row)
                THEN /\ Ends("AlreadyMember")
                     /\ UNCHANGED team_members
                ELSE /\ team_members' = team_members \cup {row}
                     /\ adm' = [adm EXCEPT !.pc = "au_grant_role", !.user_id = user_id,
                                           !.team_id = team_result.id,
                                           !.schema_name = team_result.schema_name]
                     /\ UNCHANGED last
    /\ UNCHANGED <<teams, users, meta_tables, teams_id_seq, users_id_seq, dbVars, envVars, concVars, todo, nfails>>

\* GRANT team_{schema_name} TO {pg_username}
AddUserGrantRole ==
    LET pg_username == fold(pg_username_of(adm.username))
        team_role == fold(team_role_of(adm.schema_name))
    IN  GrantStep("au_grant_role", team_role \in roles /\ pg_username \in roles,
                  {<<"member", pg_username, team_role>>}, "au_grant_usage")

\* GRANT USAGE ON SCHEMA {schema_name} TO {pg_username}
AddUserGrantUsage ==
    LET pg_username == fold(pg_username_of(adm.username))
    IN  GrantStep("au_grant_usage", fold(adm.schema_name) \in schemas /\ pg_username \in roles,
                  {<<"usage", pg_username, fold(adm.schema_name)>>}, "au_backfill")

\* FOR obj IN SELECT tablename FROM pg_tables WHERE schemaname = '{schema_name}' LOOP
\*   EXECUTE 'GRANT ALL PRIVILEGES ON TABLE {schema_name}.' || obj.tablename || ' TO {pg_username}'
\* The table name is pasted without quotes, so the GRANT names the folded name.
backfill_targets(schema_name) ==
    {<<schema_name, fold(tb[2])>> : tb \in {tb \in tables : tb[1] = schema_name}}

AddUserBackfill ==
    LET pg_username == fold(pg_username_of(adm.username))
        targets == backfill_targets(adm.schema_name)
    IN  GrantStep("au_backfill", targets \subseteq tables /\ pg_username \in roles,
                  {<<"table", pg_username, tb[1], tb[2]>> : tb \in targets}, "done")

\* ---- a statement that fails for a reason outside the catalog (connection lost,
\* timeout): the exception handler prints the error and the operation ends there
StatementFails ==
    /\ adm.pc # "idle"
    /\ nfails < MaxFailures
    /\ nfails' = nfails + 1
    /\ Ends("TransientFailure")
    /\ UNCHANGED <<catalogVars, dbVars, envVars, concVars, todo>>

\* ------------------------------------------------------------------ specification

Next ==
    \/ CreateTeamBegin \/ CreateTeamInsert \/ CreateTeamSchema \/ CreateTeamRole
    \/ CreateUserBegin \/ CreateUserPasswordMismatch \/ CreateUserRole \/ CreateUserInsert \/ CreateUserMember
    \/ CreateUserGrantRole \/ CreateUserGrantUsage \/ CreateUserGrantMeta \/ CreateUserAdmin
    \/ RemoveUserBegin \/ RemoveUserDelete \/ RemoveUserDrop
    \/ AddUserBegin \/ AddUserInsert \/ AddUserGrantRole \/ AddUserGrantUsage \/ AddUserBackfill
    \/ StatementFails
    \/ DeployTable

Spec == Init /\ [][Next]_vars

\* The operator runs every command line of the run, and a statement that was sent
\* returns or raises: some step is taken as long as one is possible.
FairSpec == Spec /\ WF_vars(Next)

\* ------------------------------------------------------------------ concurrent clients
\* Two clients run manage-central.py at the same time, and sessions call
\* meta.deploy_table at the same time.  A statement of manage-central.py is one
\* step (autocommit); a call of meta.deploy_table is one transaction (READ
\* COMMITTED) whose statements are steps: what it created is seen by the others
\* only when the call returns, and a statement that needs a name another call has
\* created and not committed waits for that call to end.

\* the command lines of a run of two clients
ConcWorkloads == {
    {Cmd("create_team", None, A_b, FALSE), Cmd("create_team", None, a_b, FALSE),
     Cmd("create_user", bob, A_b, FALSE), Again(Cmd("create_user", bob, A_b, FALSE))},
    {Cmd("create_team", None, A_b, FALSE), Cmd("create_user", eve, None, FALSE),
     Cmd("add_user_to_team", eve, A_b, FALSE),
     Again(Cmd("add_user_to_team", eve, A_b, FALSE))} }

ConcInit ==
    /\ teams = {}
    /\ users = {[id |-> 1, username |-> admin, is_admin |-> TRUE]}
    /\ team_members = {}
    /\ meta_tables = {}
    /\ teams_id_seq = 0
    /\ users_id_seq = 1
    /\ roles = {}
    /\ schemas = {}
    /\ tables = {}
    /\ grants = {}
    /\ db_owner \in OwnerNames
    /\ variable_conflict \in VariableConflicts
    /\ adm = Idle
    /\ last = NoOp
    /\ todo \in ConcWorkloads
    /\ nfails = 0
    /\ parked = Idle
    /\ txs = [p \in Callers |-> NoTx]

\* the other client's operation runs its next statement
Switch ==
    /\ adm # parked
    /\ adm' = parked
    /\ parked' = adm
    /\ UNCHANGED <<catalogVars, dbVars, envVars, last, todo, nfails, txs>>

\* what a call in progress has created and not committed
PendingSchema(p) == txs[p].pc \in {"table", "upsert", "grant"} /\ txs[p].new_schema
PendingTable(p)  == txs[p].pc \in {"upsert", "grant"}
PendingRecord(p) == txs[p].pc = "grant"

\* the statements of meta.deploy_table up to the lookup of the team's schema:
\* the exception they raise, or "Passed"
check_outcome(session_user, p_team_id) ==
    IF ~CanUseMeta(session_user) THEN "PermissionDenied"
    ELSE IF get_user_teams(session_user).raised THEN "AmbiguousColumn"
    ELSE IF ~is_authorized(session_user, p_team_id) THEN "Unauthorized"
    ELSE IF team_schema_of(p_team_id) = None THEN "NullIdentifier"
    ELSE "Passed"

\* RAISE EXCEPTION, or a statement of the call raises: the call ends and nothing it
\* did remains
TxAbort(p, outcome) ==
    /\ txs' = [txs EXCEPT ![p] = [@ EXCEPT !.pc = "done", !.outcome = outcome,
                                           !.new_schema = FALSE]]
    /\ UNCHANGED <<catalogVars, dbVars, envVars, adm, last, todo, nfails, parked>>

\* the call goes on to its next statement
TxGoes(p, pc, new_schema) ==
    /\ txs' = [txs EXCEPT ![p] = [@ EXCEPT !.pc = pc, !.new_schema = new_schema]]
    /\ UNCHANGED <<catalogVars, dbVars, envVars, adm, last, todo, nfails, parked>>

\* SELECT meta.deploy_table(...): the authorization check and the two lookups
\* (the callers are numbered in the order of their calls)
TxCall(p) ==
    /\ txs[p].pc = "idle"
    /\ \A q \in Callers : q < p => txs[q].pc # "idle"
    /\ Cardinality(meta_tables) < MaxDeploys
    /\ \E session_user \in Sessions, p_team_id \in {t.id : t \in teams},
          p_table_name \in TableNames :
        LET team_schema == team_schema_of(p_team_id)
            call == [NoTx EXCEPT !.session_user = session_user, !.p_team_id = p_team_id,
                                 !.p_table_name = p_table_name]
        IN  txs' = [txs EXCEPT ![p] =
                IF check_outcome(session_user, p_team_id) = "Passed"
                THEN [call EXCEPT !.pc = "schema",
                                  !.team_schema = team_schema,
                                  !.user_id = current_user_id(session_user),
                                  !.saw_schema = team_schema \in schemas,
                                  !.saw_table = <<team_schema, p_table_name>> \in tables]
                ELSE [call EXCEPT !.pc = "done",
                                  !.outcome = check_outcome(session_user, p_team_id)]]
    /\ UNCHANGED <<catalogVars, dbVars, envVars, adm, last, todo, nfails, parked>>

\* CREATE SCHEMA IF NOT EXISTS %I: skipped when the schema is there; when another
\* statement created the schema while this call ran, the statement either sees it
\* or, having waited for it, raises the unique violation of pg_namespace
TxCreateSchema(p) ==
    /\ txs[p].pc = "schema"
    /\ IF txs[p].team_schema \in schemas
       THEN \/ TxGoes(p, "table", FALSE)
            \/ /\ ~txs[p].saw_schema
               /\ TxAbort(p, "UniqueViolation")
       ELSE /\ ~\E q \in Callers \ {p} :
                    PendingSchema(q) /\ txs[q].team_schema = txs[p].team_schema
            /\ TxGoes(p, "table", TRUE)

\* CREATE TABLE %I.%I %s: raises when the table is there, waits while another call
\* has created it and not returned
TxCreateTable(p) ==
    /\ txs[p].pc = "table"
    /\ IF <<txs[p].team_schema, txs[p].p_table_name>> \in tables
       THEN TxAbort(p, "DuplicateTable")
       ELSE /\ ~\E q \in Callers \ {p} :
                    /\ PendingTable(q)
                    /\ txs[q].team_schema = txs[p].team_schema
                    /\ txs[q].p_table_name = txs[p].p_table_name
            /\ TxGoes(p, "upsert", txs[p].new_schema)

\* INSERT INTO meta.tables ... ON CONFLICT (schema_name, table_name) DO UPDATE: waits
\* while another call has inserted the pair and not returned
TxUpsert(p) ==
    /\ txs[p].pc = "upsert"
    /\ ~\E q \in Callers \ {p} :
            /\ PendingRecord(q)
            /\ txs[q].team_schema = txs[p].team_schema
            /\ txs[q].p_table_name = txs[p].p_table_name
    /\ TxGoes(p, "grant", txs[p].new_schema)

\* GRANT ALL PRIVILEGES ... TO GROUP team_%s; RETURN TRUE: the call returns and what
\* it did is committed
TxGrant(p) ==
    LET tx == txs[p]
    IN  /\ tx.pc = "grant"
        /\ IF \E g \in deploy_grants(tx.team_schema, tx.p_table_name) : g[2] \notin roles
           THEN TxAbort(p, "UndefinedObject")
           ELSE /\ schemas' = schemas \cup {tx.team_schema}
                /\ tables' = tables \cup {<<tx.team_schema, tx.p_table_name>>}
                /\ meta_tables' = upsert_table(meta_tables, tx.p_team_id, tx.p_table_name,
                                               tx.team_schema, tx.user_id)
                /\ grants' = grants \cup deploy_grants(tx.team_schema, tx.p_table_name)
                /\ txs' = [txs EXCEPT ![p] = [@ EXCEPT !.pc = "done", !.outcome = "Success",
                                                       !.new_schema = FALSE]]
                /\ UNCHANGED <<teams, users, team_members, teams_id_seq, users_id_seq,
                               roles, envVars, adm, last, todo, nfails, parked>>

\* CREATE SCHEMA IF NOT EXISTS of create_team waits while a call of deploy_table has
\* created the schema and not returned
ConcCreateTeamSchema ==
    /\ ~\E q \in Callers : PendingSchema(q) /\ txs[q].team_schema = fold(adm.schema_name)
    /\ CreateTeamSchema

NextConc ==
    \/ CreateTeamBegin \/ CreateTeamInsert \/ ConcCreateTeamSchema \/ CreateTeamRole
    \/ CreateUserBegin \/ CreateUserRole \/ CreateUserInsert \/ CreateUserMember
    \/ CreateUserGrantRole \/ CreateUserGrantUsage \/ CreateUserGrantMeta
    \/ AddUserBegin \/ AddUserInsert \/ AddUserGrantRole \/ AddUserGrantUsage \/ AddUserBackfill
    \/ Switch
    \/ \E p \in Callers : TxCall(p)
    \/ \E p \in Callers : TxCreateSchema(p)
    \/ \E p \in Callers : TxCreateTable(p)
    \/ \E p \in Callers : TxUpsert(p)
    \/ \E p \in Callers : TxGrant(p)

ConcSpec == ConcInit /\ [][NextConc]_vars

\* ------------------------------------------------------------------ vocabulary of the properties

\* the catalog Users a database role stands for: create_user derives the role from the username
UsersOfRole(role) == {u \in users : fold(pg_username_of(u.username)) = role}

\* the roles made by create_user that a session can be opened under
UserSessions == {r \in roles : IsUserRole(r)}

\* the Team rows (id, schema_name) joined to a user by a TeamMembership row
TeamsOfUser(u) ==
    {<<t.id, t.schema_name>> : t \in
        {t \in teams : [user_id |-> u.id, team_id |-> t.id] \in team_members}}

AllTeams == {<<t.id, t.schema_name>> : t \in teams}

\* the ids deploy_table is called with
TeamIds == {t.id : t \in teams} \cup {teams_id_seq + 1}

\* a role's privileges: its own grants and those of the group roles it is a member of
HeldBy(gs, role) == {role} \cup {g[3] : g \in {g \in gs : g[1] = "member" /\ g[2] = role}}

\* with the roles rs and the grants gs, a role can read and write a table: it has
\* USAGE on the schema and privileges on the table
HasAccessIn(rs, gs, role, schema, table) ==
    /\ role \in rs
    /\ \E r \in HeldBy(gs, role) : <<"usage", r, schema>> \in gs
    /\ \E r \in HeldBy(gs, role) : <<"table", r, schema, table>> \in gs

HasAccess(role, schema, table) == HasAccessIn(roles, grants, role, schema, table)

\* the step is a call of deploy_table that ended with this outcome
Deployed(session_user, p_team_id, p_table_name, outcome) ==
    /\ \E d \in TableDefinitions : deploy_table(session_user, p_team_id, p_table_name, d)
    /\ last'.outcome = outcome

\* ------------------------------------------------------------------ C1

C2_SecondDeploySucceeds ==
    [][\A P \in Sessions, T \in TeamIds, n \in TableNames, d \in TableDefinitions :
        (/\ last'.op = "deploy_table"
         /\ <<team_schema_of(T), n>> \in tables
         /\ \E r \in meta_tables : r.schema_name = team_schema_of(T) /\ r.table_name = n
         /\ CanUseMeta(P)
         /\ is_authorized(P, T)
         /\ deploy_table(P, T, n, d))
        => /\ last'.outcome = "Success"
           /\ Cardinality({r \in meta_tables' : r.schema_name = team_schema_of(T)
                                                /\ r.table_name = n}) = 1
           /\ \A r \in meta_tables : r.schema_name = team_schema_of(T) /\ r.table_name = n
                 => [r EXCEPT !.updated_at = @ + 1] \in meta_tables']_vars

\* ------------------------------------------------------------------ C3

\* the state create_team(N) and create_user(U, team = N) leave when both succeed
CreatedInTeam(u, t) ==
    /\ [user_id |-> u.id, team_id |-> t.id] \in team_members
    /\ t.schema_name \in schemas
    /\ fold(team_role_of(t.schema_name)) \in roles
    /\ last.op = "create_user" /\ last.outcome = "Success"
    /\ last.username = u.username /\ last.team = t.name

\* C3: after create_team(N) and create_user(U, team = N), deploy_table into N's team
\* called under U's database role succeeds, creates the table and records a
\* TableRecord whose creator is U.
C3_CreatedUserDeploys ==
    [][\A u \in users, t \in teams, n \in TableNames, d \in TableDefinitions :
        (/\ last'.op = "deploy_table"
         /\ CreatedInTeam(u, t)
         /\ <<t.schema_name, n>> \notin tables
         /\ deploy_table(fold(pg_username_of(u.username)), t.id, n, d))
        => /\ last'.outcome = "Success"
           /\ <<t.schema_name, n>> \in tables'
           /\ \E r \in meta_tables' : /\ r.schema_name = t.schema_name
                                      /\ r.table_name = n
                                      /\ r.created_by = u.id]_vars

\* ------------------------------------------------------------------ C4

\* C4: the rows meta.get_user_teams() yields in a session of a role whose catalog
\* User is an administrator are all Team rows.
C4_AdminSeesAllTeams ==
    \A P \in UserSessions :
        (\E u \in UsersOfRole(P) : u.is_admin)
        => get_user_teams(P) = [raised |-> FALSE, rows |-> AllTeams]

\* ------------------------------------------------------------------ C5

\* C5: the rows meta.get_user_teams() yields in a session of a role whose catalog
\* User is not an administrator are exactly that user's TeamMembership teams, and
\* no rows for a role without a catalog User.
C5_MemberSeesOwnTeams ==
    \A P \in UserSessions :
        (~\E u \in UsersOfRole(P) : u.is_admin)
        => get_user_teams(P) =
             [raised |-> FALSE,
              rows |-> UNION {TeamsOfUser(u) : u \in UsersOfRole(P)}]

\* ------------------------------------------------------------------ C6

\* C6: meta.is_admin() called in a session of a role is true exactly when a catalog
\* User of that role has the administrator flag.
C6_IsAdminOfCaller ==
    \A P \in UserSessions : is_admin(P) = (\E u \in UsersOfRole(P) : u.is_admin)

\* ------------------------------------------------------------------ C7

\* the step is the INSERT of create_team for a name whose schema name a team holds
CollidingInsert ==
    /\ adm.pc = "ct_insert"
    /\ adm'.pc # "ct_insert"
    /\ \E t \in teams : t.schema_name = schema_name_of(adm.team)

\* C7: Team rows have pairwise distinct schema names, and a create_team whose name
\* derives a schema name that a team already holds ends at its INSERT with a
\* unique violation: no Team row, no schema and no role is added.
C7_SchemaNamesUnique ==
    /\ [](\A t1, t2 \in teams : t1.schema_name = t2.schema_name => t1 = t2)
    /\ [][CollidingInsert
            => /\ last'.op = "create_team"
               /\ last'.outcome \in {"UniqueViolation", "TransientFailure"}
               /\ adm' = Idle
               /\ UNCHANGED <<teams, roles, schemas, tables, grants>>]_vars

\* C7 witness: create_team for another name with the schema name of an existing
\* team was refused
C7_Witness ==
    /\ last.op = "create_team"
    /\ last.outcome = "UniqueViolation"
    /\ \E t \in teams : t.name # last.team /\ t.schema_name = schema_name_of(last.team)

\* ------------------------------------------------------------------ C8

\* C8: when remove_user(U) ends for an existing user U (its statements ran), no
\* User row and no TeamMembership row of U is left.
C8_RemoveUserDeletesRow ==
    (last.op = "remove_user" /\ last.outcome \notin {"NotFound", "TransientFailure"})
    => /\ ~\E u \in users : u.username = last.username
       /\ ~\E tm \in team_members : tm.user_id \notin {u.id : u \in users}

\* ------------------------------------------------------------------ C9

\* the grants of gs that a database role holds itself
GrantsOf(gs, role) == {g \in gs : g[2] = role}

\* the step ends, with success, a create_user that has no team and no admin flag
\* and that follows a remove_user of the same username that deleted the User row
RecreatedAfterRemove ==
    /\ adm.op = "create_user" /\ adm.team = None /\ ~adm.is_admin
    /\ adm'.op = "idle"
    /\ last'.outcome = "Success"
    /\ last.op = "remove_user" /\ last.username = adm.username
    /\ last.outcome \in {"Success", "TransientFailure"}

\* C9: create_user(U) right after remove_user(U) succeeds and the new user has no
\* TeamMembership row and its database role holds no role, schema or table grant,
\* also when the role drop of remove_user failed.
C9_RecreatedUserIsClean ==
    [][RecreatedAfterRemove
        => /\ \A u \in users' : u.username = adm.username
                => ~\E tm \in team_members' : tm.user_id = u.id
           /\ GrantsOf(grants', fold(pg_username_of(adm.username))) = {}]_vars

\* ------------------------------------------------------------------ C10

\* the team of the add_user_to_team that ended last, with success
AddedTeams == {t \in teams : /\ last.op = "add_user_to_team"
                             /\ last.outcome = "Success"
                             /\ last.team = t.name}

\* C10: right after add_user_to_team(u, t) succeeded, u's role has access to every
\* table recorded for t; and when another member of t then deploys a table into
\* t, u's role has access to the new table.
C10_AddedMemberHasAccess ==
    /\ [](\A t \in AddedTeams : \A r \in meta_tables : r.team_id = t.id
            => HasAccess(fold(pg_username_of(last.username)), r.schema_name, r.table_name))
    /\ [][\A t \in AddedTeams, P \in UserSessions, n \in TableNames :
            (/\ last'.op = "deploy_table"
             /\ P # fold(pg_username_of(last.username))
             /\ \E v \in UsersOfRole(P) : <<t.id, t.schema_name>> \in TeamsOfUser(v)
             /\ Deployed(P, t.id, n, "Success"))
            => HasAccessIn(roles', grants', fold(pg_username_of(last.username)),
                           t.schema_name, n)]_vars

\* C10 witness: eve was added to a team, bob deployed a table into it afterwards
\* and eve's role has access to the table
C10_Witness ==
    /\ last.op = "deploy_table" /\ last.outcome = "Success"
    /\ todo = {} /\ adm.op = "idle"
    /\ \E t \in teams, u \in users :
        /\ u.username = eve
        /\ <<t.id, t.schema_name>> \in TeamsOfUser(u)
        /\ Cardinality({r \in meta_tables : r.team_id = t.id}) = 1
        /\ \A r \in meta_tables : HasAccess(fold(pg_username_of(eve)), r.schema_name, r.table_name)

\* ------------------------------------------------------------------ C11

\* C11: in every state, also between the statements of create_team and after a
\* create_team that failed part-way, every Team row has its physical schema and
\* its database role team_{schema_name}.
C11_TeamHasSchemaAndRole ==
    \A t \in teams : /\ fold(t.schema_name) \in schemas
                     /\ fold(team_role_of(t.schema_name)) \in roles

\* ------------------------------------------------------------------ C12

\* C12: in every state, also between the statements of create_user and remove_user
\* and after one that failed part-way, every User row that create_user inserted
\* (the seeded row has id 1) has the database role derived from its username.
C12_UserHasRole ==
    \A u \in users : u.id > 1 => fold(pg_username_of(u.username)) \in roles

\* ------------------------------------------------------------------ C13

\* C13: in every state, every TableRecord names a physical table in an existing
\* schema, and every physical table has a TableRecord.
C13_RecordsMatchTables ==
    /\ \A r \in meta_tables : /\ r.schema_name \in schemas
                              /\ <<r.schema_name, r.table_name>> \in tables
    /\ \A tb \in tables : \E r \in meta_tables : /\ r.schema_name = tb[1]
                                                 /\ r.table_name = tb[2]

\* C13 witness: two tables were deployed and recorded
C13_Witness ==
    /\ Cardinality(tables) = 2
    /\ Cardinality(meta_tables) = 2
    /\ last.op = "deploy_table" /\ last.outcome = "Success"

\* ------------------------------------------------------------------ C14

\* C14: in every state, two distinct User rows never derive the same database role.
C14_UsersToRolesOneToOne ==
    \A u1, u2 \in users :
        fold(pg_username_of(u1.username)) = fold(pg_username_of(u2.username)) => u1 = u2

\* ------------------------------------------------------------------ C15

\* the step is the INSERT of add_user_to_team(u, t) run when (u, t) is a TeamMembership
InsertOfMember ==
    /\ adm.pc = "au_insert"
    /\ AddUserInsert
    /\ \E u \in users, t \in teams :
        /\ u.username = adm.username /\ t.name = adm.team
        /\ [user_id |-> u.id, team_id |-> t.id] \in team_members

\* C15: add_user_to_team(u, t) for an existing TeamMembership (u, t) ends at its
\* INSERT with the report 'already a member', which is not the report of a new
\* member; no row is added, no grant is issued, catalog and grants are unchanged.
C15_AlreadyMemberIsNoOp ==
    [][InsertOfMember
        => /\ last'.op = "add_user_to_team"
           /\ last'.outcome = "AlreadyMember"
           /\ handler(last'.outcome) # handler("Success")
           /\ adm' = Idle
           /\ UNCHANGED <<catalogVars, dbVars>>]_vars

\* C15 witness: a second add_user_to_team of a member reported 'already a member'
C15_Witness ==
    /\ last.op = "add_user_to_team"
    /\ last.outcome = "AlreadyMember"
    /\ \E u \in users, t \in teams :
        /\ u.username = last.username /\ t.name = last.team
        /\ [user_id |-> u.id, team_id |-> t.id] \in team_members

\* ------------------------------------------------------------------ C16

\* the command lines that are run a second time
Reruns == {cmd \in UNION Workloads : cmd.run = 2}

\* the first run of cmd ended with a failure from outside after its catalog write
\* (the Team row of create_team, the TeamMembership row of create_user and
\* add_user_to_team), no further failure will happen and cmd is about to be run again
FailedAfterWrite(cmd) ==
    /\ cmd \in todo
    /\ adm.op = "idle"
    /\ nfails = MaxFailures
    /\ last.op = cmd.op /\ last.username = cmd.username /\ last.team = cmd.team
    /\ last.outcome = "TransientFailure"
    /\ IF cmd.op = "create_team"
       THEN \E t \in teams : t.name = cmd.team
       ELSE \E u \in users, t \in teams :
                /\ u.username = cmd.username /\ t.name = cmd.team
                /\ [user_id |-> u.id, team_id |-> t.id] \in team_members

\* the database objects agree with the catalog rows of cmd: the team's schema and
\* role exist, the member's role holds the team role and USAGE on the schema
AgreesWithCatalog(cmd) ==
    /\ \A t \in teams : t.name = cmd.team
          => /\ fold(t.schema_name) \in schemas
             /\ fold(team_role_of(t.schema_name)) \in roles
    /\ \A u \in users, t \in teams :
          (/\ u.username = cmd.username /\ t.name = cmd.team
           /\ [user_id |-> u.id, team_id |-> t.id] \in team_members)
          => LET role == fold(pg_username_of(u.username))
             IN  /\ role \in roles
                 /\ <<"member", role, fold(team_role_of(t.schema_name))>> \in grants
                 /\ <<"usage", role, fold(t.schema_name)>> \in grants

\* C16: when create_team, create_user with a team or add_user_to_team failed from
\* outside after its catalog write and the same command line is run again with
\* no further failure, a state is reached where the database objects agree with
\* the catalog rows of the command.
C16_RerunConverges ==
    \A cmd \in Reruns : FailedAfterWrite(cmd) ~> AgreesWithCatalog(cmd)

\* ------------------------------------------------------------------ C17

\* the step ends the admin operation op with the success message
EndsWithSuccess(op) ==
    /\ adm.op = op
    /\ adm'.op = "idle"
    /\ last'.op = op
    /\ last'.outcome = "Success"

\* with the rows us, ts, ms and the grants gs, the user is a member of the team
\* and its role holds the team role and USAGE on the team's schema
MemberIn(us, ts, ms, gs, username, team) ==
    \E u \in us, t \in ts :
        /\ u.username = username /\ t.name = team
        /\ [user_id |-> u.id, team_id |-> t.id] \in ms
        /\ <<"member", fold(pg_username_of(username)), fold(team_role_of(t.schema_name))>> \in gs
        /\ <<"usage", fold(pg_username_of(username)), fold(t.schema_name)>> \in gs

\* C17: an admin operation that reports success has done every one of its steps:
\* create_team leaves the Team row, the schema and the role; create_user leaves
\* the User row and the role and, when a team was named, the TeamMembership and
\* its grants; add_user_to_team leaves the TeamMembership and its grants;
\* remove_user leaves neither the User row nor the role.
C17_SuccessMeansAllSteps ==
    [][/\ EndsWithSuccess("create_team")
            => \E t \in teams' : /\ t.name = adm.team
                                 /\ fold(t.schema_name) \in schemas'
                                 /\ fold(team_role_of(t.schema_name)) \in roles'
       /\ EndsWithSuccess("create_user")
            => /\ \E u \in users' : u.username = adm.username
               /\ fold(pg_username_of(adm.username)) \in roles'
               /\ adm.team # None
                    => MemberIn(users', teams', team_members', grants', adm.username, adm.team)
       /\ EndsWithSuccess("add_user_to_team")
            => MemberIn(users', teams', team_members', grants', adm.username, adm.team)
       /\ EndsWithSuccess("remove_user")
            => /\ ~\E u \in users' : u.username = adm.username
               /\ fold(pg_username_of(adm.username)) \notin roles']_vars

\* ------------------------------------------------------------------ C18

\* the statements of the admin operations that follow the catalog write
SyncSteps == {"ct_schema", "ct_role", "cu_grant_role", "cu_grant_usage", "cu_grant_meta",
              "ru_drop", "au_grant_role", "au_grant_usage", "au_backfill"}

\* the step ends an admin operation with a failure of a statement that follows
\* its committed catalog write
SyncStepFails ==
    /\ adm.pc \in SyncSteps
    /\ adm'.op = "idle"
    /\ last'.outcome # "Success"

\* C18: when a statement after the committed catalog write fails, the operation
\* reports it otherwise than it reports a failure of the catalog write itself (a
\* unique violation, a row not found), and the catalog write stays.
C18_SyncFailureReportedDistinctly ==
    [][SyncStepFails
        => /\ handler(last'.outcome) \notin {handler("UniqueViolation"), handler("NotFound")}
           /\ UNCHANGED catalogVars]_vars

\* ------------------------------------------------------------------ C19

\* the step is the failure of the role drop of remove_user
RoleDropFails ==
    /\ adm.op = "remove_user"
    /\ adm.pc = "ru_drop"
    /\ adm'.op = "idle"
    /\ last'.outcome # "Success"

LookupOfMissing ==
    \/ /\ adm.pc = "au_insert"
       /\ AddUserInsert
       /\ \/ ~\E u \in users : u.username = adm.username
          \/ ~\E t \in teams : t.name = adm.team
    \/ /\ adm.pc = "ru_delete"
       /\ RemoveUserDelete
       /\ ~\E u \in users : u.username = adm.username

\* C20: add_user_to_team with a username or team name that is not in the catalog,
\* and remove_user with a username that is not in the catalog, end with NotFound;
\* no catalog row, role, schema, table or grant changes.
C20_NotFoundChangesNothing ==
    [][LookupOfMissing
        => /\ last'.op = adm.op
           /\ last'.outcome = "NotFound"
           /\ adm' = Idle
           /\ UNCHANGED <<catalogVars, dbVars>>]_vars

\* C20 witness: remove_user of a username without a User row ended with NotFound
\* while the role that its name derives exists, for another user
C20_Witness ==
    /\ last.op = "remove_user"
    /\ last.outcome = "NotFound"
    /\ ~\E u \in users : u.username = last.username
    /\ fold(pg_username_of(last.username)) \in roles
    /\ \E u \in users : fold(pg_username_of(u.username)) = fold(pg_username_of(last.username))

\* ------------------------------------------------------------------ C23

\* the step grants the database-wide privileges to a user role
Elevates == \E g \in grants' \ grants : g[1] = "dbadmin"

\* C23: database-wide privileges are granted to a user role only in an operation
\* whose invoking principal (the role the script connects as) meta.is_admin()
\* confirms as an administrator.
C23_ElevationOnlyByAdmin ==
    [][Elevates => is_admin(db_owner)]_vars

\* ------------------------------------------------------------------ C24

\* a statement of deploy_table after the authorization check raises: the team has
\* no schema name, the table exists, or the team's role does not exist
FailsAfterCheck(p_team_id, p_table_name) ==
    \/ team_schema_of(p_team_id) = None
    \/ <<team_schema_of(p_team_id), p_table_name>> \in tables
    \/ fold(team_role_of(team_schema_of(p_team_id))) \notin roles

\* C24: a deploy_table call that passes the authorization check and has a later
\* statement raise fails as a whole: no schema, table, TableRecord, updated_at
\* refresh or grant of the call remains.
C24_DeployAllOrNothing ==
    [][\A P \in Sessions, T \in TeamIds, n \in TableNames, d \in TableDefinitions :
        (/\ last'.op = "deploy_table"
         /\ CanUseMeta(P)
         /\ is_authorized(P, T)
         /\ FailsAfterCheck(T, n)
         /\ deploy_table(P, T, n, d))
        => /\ last'.outcome \in {"NullIdentifier", "DuplicateTable", "UndefinedObject"}
           /\ UNCHANGED <<catalogVars, dbVars>>]_vars

\* C24 witness: a call into a team whose role was never created (its create_team
\* failed before CREATE ROLE) failed at the GRANT, and no table or record is left
C24_Witness ==
    /\ last.op = "deploy_table"
    /\ last.outcome = "UndefinedObject"
    /\ teams # {} /\ schemas # {}
    /\ tables = {} /\ meta_tables = {} /\ grants = {}

\* ------------------------------------------------------------------ C25

\* the step is a deploy_table call into team t under role P that the authorization
\* check lets pass
Authorized(P, t) ==
    /\ last'.op = "deploy_table"
    /\ \E n \in TableNames, d \in TableDefinitions : deploy_table(P, t.id, n, d)
    /\ last'.outcome \in {"Success", "DuplicateTable", "UndefinedObject"}

\* the step is a deploy_table call into team t under role P
Deploys(P, t) ==
    /\ last'.op = "deploy_table"
    /\ \E n \in TableNames, d \in TableDefinitions : deploy_table(P, t.id, n, d)

\* C25: the deploy_table call of a principal into team T right after
\* add_user_to_team(principal, T) succeeded is authorized, and the deploy_table call
\* of a principal right after remove_user(principal) ended is not.
C25_AuthorizationFollowsCatalog ==
    [][\A t \in teams, P \in Sessions :
        /\ (/\ last.op = "add_user_to_team" /\ last.outcome = "Success"
            /\ last.team = t.name
            /\ P = fold(pg_username_of(last.username))
            /\ Deploys(P, t))
           => Authorized(P, t)
        /\ (/\ last.op = "remove_user" /\ last.outcome \in {"Success", "TransientFailure"}
            /\ ~\E u \in users : u.username = last.username
            /\ P = fold(pg_username_of(last.username))
            /\ Deploys(P, t))
           => ~Authorized(P, t)]_vars

\* ------------------------------------------------------------------ C26

\* what a grant gives, without the role that holds it
Granted(gs, role) == {Tail(Tail(g)) : g \in {g \in gs : g[2] = role}}

\* u was made by create_user(u, team = t): that is the only command line of the
\* run that names u, and it has ended with a membership of t
MadeWithTeam(u, t) ==
    /\ [user_id |-> u.id, team_id |-> t.id] \in team_members
    /\ \E cmd \in UNION Workloads : cmd.op = "create_user" /\ cmd.username = u.username
                                     /\ cmd.team = t.name
    /\ ~\E cmd \in UNION Workloads : cmd.op = "add_user_to_team" /\ cmd.username = u.username

\* u was made by create_user(u) and then add_user_to_team(u, t)
MadeThenAdded(u, t) ==
    /\ [user_id |-> u.id, team_id |-> t.id] \in team_members
    /\ \E cmd \in UNION Workloads : cmd.op = "create_user" /\ cmd.username = u.username
                                     /\ cmd.team = None

\* C26: once every command line of a run has ended without a failure, a member of
\* a team made by create_user(u, team = t) and a member of the same team made by
\* create_user(v) and add_user_to_team(v, t) hold the same grants, each in its role.
C26_BothWaysSameGrants ==
    (todo = {} /\ adm.op = "idle" /\ nfails = 0)
    => \A t \in teams, u, v \in users :
        (MadeWithTeam(u, t) /\ MadeThenAdded(v, t))
        => Granted(grants, fold(pg_username_of(u.username)))
             = Granted(grants, fold(pg_username_of(v.username)))

\* ------------------------------------------------------------------ C27

\* the team a grant is about: the team of the role, of the schema, of the table
TeamsOfGrant(g) ==
    {t \in teams :
        \/ g[1] = "member" /\ g[3] = fold(team_role_of(t.schema_name))
        \/ g[1] = "usage" /\ g[3] = fold(t.schema_name)
        \/ g[1] = "table" /\ g[3] = t.schema_name}

\* C27: whenever no operation is in progress, a role made by create_user holds a
\* team's role, USAGE on a team's schema or privileges on a team's table only if
\* a User of that role is a member of the team or an administrator.
C27_GrantsOnlyToMembers ==
    adm.op = "idle"
    => \A role \in UserSessions, g \in grants :
        g[2] = role
        => \A t \in TeamsOfGrant(g) :
             \E u \in UsersOfRole(role) :
                \/ u.is_admin
                \/ [user_id |-> u.id, team_id |-> t.id] \in team_members

\* ------------------------------------------------------------------ C28

\* the teams whose create_team has completed: no statement of the run has failed
\* and no operation is in progress, so every Team row is one of a create_team
\* that ran to its end
CompletedTeams == IF nfails = 0 /\ adm.op = "idle" THEN teams ELSE {}

\* C28: a deploy_table call by an authorized caller into a team whose create_team
\* completed does not fail at its GRANT, and the role it grants the table to is
\* the role create_team created, which is the role that create_user and
\* add_user_to_team granted to the members of the team.
C28_TeamRoleNamesAgree ==
    [][\A t \in CompletedTeams, P \in Sessions, n \in TableNames, d \in TableDefinitions :
        (/\ last'.op = "deploy_table"
         /\ CanUseMeta(P)
         /\ is_authorized(P, t.id)
         /\ deploy_table(P, t.id, n, d))
        => /\ last'.outcome # "UndefinedObject"
           /\ <<t.schema_name, n>> \notin tables => last'.outcome = "Success"
           /\ \A g \in grants' \ grants :
                /\ g[2] \in roles
                /\ \A m \in grants : m[1] = "member" /\ t \in TeamsOfGrant(m) => m[3] = g[2]]_vars

\* C28 witness: with every command line run to its end, a table was deployed into
\* a team and granted to the team's role, which a member holds
C28_Witness ==
    /\ last.op = "deploy_table" /\ last.outcome = "Success"
    /\ nfails = 0 /\ adm.op = "idle"
    /\ Cardinality(teams) = 1 /\ Cardinality(tables) = 1
    /\ \E g \in grants, m \in grants :
        /\ g[1] = "table" /\ g[2] \in roles
        /\ m[1] = "member" /\ m[3] = g[2]

\* ------------------------------------------------------------------ C21

\* the calls of p and q were made at the same time for the same team and table
\* name, which neither found deployed, by callers that passed the authorization
\* check, into a team whose schema and role exist; both calls have ended
ConcurrentDeploys(p, q) ==
    /\ p # q
    /\ txs[p].pc = "done" /\ txs[q].pc = "done"
    /\ txs[p].p_team_id = txs[q].p_team_id
    /\ txs[p].p_table_name = txs[q].p_table_name
    /\ ~txs[p].saw_table /\ ~txs[q].saw_table
    /\ txs[p].saw_schema /\ txs[q].saw_schema
    /\ {txs[p].outcome, txs[q].outcome} \subseteq {"Success", "DuplicateTable"}

\* C21: two deploy_table calls made at the same time by authorized callers for the
\* same team and table name both end without an error, and one TableRecord for the
\* pair is left.
C21_ConcurrentDeploysBothComplete ==
    \A p, q \in Callers :
        ConcurrentDeploys(p, q)
        => /\ txs[p].outcome = "Success"
           /\ txs[q].outcome = "Success"
           /\ Cardinality({r \in meta_tables : /\ r.schema_name = txs[p].team_schema
                                                /\ r.table_name = txs[p].p_table_name}) = 1

\* ------------------------------------------------------------------ C22

\* the statements of add_user_to_team that only the call that inserted the
\* TeamMembership row runs
InserterSteps == {"au_grant_role", "au_grant_usage", "au_backfill"}

\* C22: under every interleaving of the statements of two clients and of the calls
\* of deploy_table, no two Team rows have the same name or the same schema name,
\* no two User rows the same username, no two TableRecords the same schema and
\* table name, no two TeamMembership rows the same user and team; and two
\* add_user_to_team for the same user and team never both insert the row.
C22_UniqueUnderInterleaving ==
    /\ \A t1, t2 \in teams :
          (t1.name = t2.name \/ t1.schema_name = t2.schema_name) => t1 = t2
    /\ \A u1, u2 \in users : u1.username = u2.username => u1 = u2
    /\ \A r1, r2 \in meta_tables :
          (r1.schema_name = r2.schema_name /\ r1.table_name = r2.table_name) => r1 = r2
    /\ \A m1, m2 \in team_members :
          (m1.user_id = m2.user_id /\ m1.team_id = m2.team_id) => m1 = m2
    /\ ~(/\ adm.op = "add_user_to_team" /\ parked.op = "add_user_to_team"
         /\ adm.username = parked.username /\ adm.team = parked.team
         /\ adm.pc \in InserterSteps /\ parked.pc \in InserterSteps)

\* C22 witness: while one add_user_to_team that inserted the row was between its
\* grants, the add_user_to_team of the other client for the same user and team
\* reported 'already a member'
C22_Witness ==
    /\ parked.op = "add_user_to_team"
    /\ parked.pc \in InserterSteps
    /\ adm.op = "idle"
    /\ last.op = "add_user_to_team"
    /\ last.outcome = "AlreadyMember"
    /\ last.username = parked.username /\ last.team = parked.team
    /\ Cardinality(team_members) = 1

====
